---- MODULE Spec2Model ----
(***************************************************************************)
(* Model of src/main.ts (class CommandLineOptions, the Markdown help       *)
(* generator and the module initialisation) of unyt-org/command-line-args. *)
(*                                                                         *)
(* Conventions                                                             *)
(*   - an optional JavaScript value is a tuple: <<>> is undefined and      *)
(*     <<v>> is the defined value v;                                       *)
(*   - an OptionConfig is a record over Fields of optional values;         *)
(*   - a JavaScript object used as an ordered dictionary (Object.entries   *)
(*     order) is a sequence of [name, cfg] entries;                        *)
(*   - a handler is an operator from the process state record to the       *)
(*     process state record; Deno.exit and an uncaught exception set       *)
(*     status and every later statement of the handler is skipped.         *)
(***************************************************************************)
EXTENDS Integers, Sequences, FiniteSets, TLC

\* ------------------------------------------------------------------ bounds
MaxCalls == 2        \* API calls made by the host program in one run
MaxObjs == 3         \* CommandLineOptions objects constructed in one run

\* ------------------------------------------------------- program constants
WriteDelay == 1      \* seconds, setTimeout(..., 1000) of the coalesced write
ExitDelay == 5       \* seconds, setTimeout(()=>Deno.exit(10), 5000)
CaptureDelay == 60   \* seconds, setTimeout(resolve, 60_000) in capture()
GenerationExitCode == 10
ErrorExitCode == 1

\* ------------------------------------------------------- optional values
None == <<>>
Some(v) == <<v>>
IsDef(o) == o # <<>>
Val(o) == o[1]

Fields ==
  {"description", "type", "placeholder", "default", "aliases", "multiple",
   "required", "allowEmptyString", "collectNotPrefixedArgs", "overload", "_dev"}

\* an OptionConfig literal: the fields of r are defined, the others are not
Cfg(r) == [f \in Fields |-> IF f \in DOMAIN r THEN Some(r[f]) ELSE None]

\* truthiness of config?.field for an optional config c
Flag(c, f) == IsDef(c) /\ IsDef(Val(c)[f]) /\ Val(c)[f][1] = TRUE

\* config?.type == t
TypeIs(c, t) == IsDef(c) /\ IsDef(Val(c)["type"]) /\ Val(c)["type"][1] = t

\* config?.aliases ?? []
AliasesOf(c) ==
  IF IsDef(c) /\ IsDef(Val(c)["aliases"]) THEN Val(c)["aliases"][1] ELSE <<>>

\* ------------------------------------------------------------ sequences
\* the elements of a sequence
Elems(s) == {s[i] : i \in 1..Len(s)}

\* --------------------------------------------------- ordered dictionaries
RECURSIVE IndexOf(_, _, _)
IndexOf(entries, name, i) ==
  IF i > Len(entries) THEN 0
  ELSE IF entries[i].name = name THEN i
  ELSE IndexOf(entries, name, i + 1)

\* name in obj
Has(entries, name) == IndexOf(entries, name, 1) # 0

\* obj[name] (undefined when the key is absent)
Get(entries, name) ==
  IF Has(entries, name) THEN entries[IndexOf(entries, name, 1)].cfg ELSE None

\* obj[name] = cfg: a new key goes last, an existing key keeps its position
Put(entries, name, cfg) ==
  IF Has(entries, name)
  THEN [entries EXCEPT ![IndexOf(entries, name, 1)].cfg = cfg]
  ELSE Append(entries, [name |-> name, cfg |-> cfg])

SeqToSet(s) == {s[i] : i \in 1..Len(s)}

RECURSIVE Reverse(_)
Reverse(s) == IF s = <<>> THEN <<>> ELSE Append(Reverse(Tail(s)), Head(s))

\* ------------------------------------------------------------ input pools
DefaultContextName == "General Options"
CommandNames == <<"advanced", "basic">>

\* ----------------------------------------------------------- process state
\* The process state record S has one field per variable of the module:
\*   objs       every CommandLineOptions object constructed so far, by id
\*   contexts   the static #contexts Map, in insertion order: [name, obj]
\*   globalLockContext   0, or the id of the object that set the lock
\*   lockedCommands      the static #lockedCommands Map: [name, obj]
\*   generating, timers, now   the coalesced write and the event loop
\*   status     [state, code, reason, arg] of the process: arg is the
\*              token that the message of an "invalid option" exit names
Running(S) == S.status.state = "running"

\* Deno.exit(code) after logger.error(...)
Exit(S, code, reason) ==
  [S EXCEPT !.status =
     [state |-> "exited", code |-> code, reason |-> reason, arg |-> ""]]

\* an exception nobody catches
Throw(S, reason) ==
  [S EXCEPT !.status =
     [state |-> "threw", code |-> ErrorExitCode, reason |-> reason, arg |-> ""]]

\* setTimeout(callback, delay)
SetTimeout(S, kind, delay) ==
  [S EXCEPT !.timers = Append(@, [kind |-> kind, due |-> S.now + delay])]

\* static generateHelpMarkdownFile(): the request part (main.ts 478-482, 495)
RequestGenerate(S) ==
  IF S.generating THEN S
  ELSE SetTimeout([S EXCEPT !.generating = TRUE], "write", WriteDelay)

\* #formatArgName
FormatArgName(name) == (IF Len(name) = 1 THEN "-" ELSE "--") \o name

\* ------------------------------------------------------------ constructor
\* Map.prototype.set: an existing key keeps its position and gets the value
MapSet(map, name, obj) ==
  IF \E i \in 1..Len(map) : map[i].name = name
  THEN [i \in 1..Len(map) |->
          IF map[i].name = name THEN [name |-> name, obj |-> obj] ELSE map[i]]
  ELSE Append(map, [name |-> name, obj |-> obj])

MapHas(map, name) == \E i \in 1..Len(map) : map[i].name = name
MapObj(map, name) == map[CHOOSE i \in 1..Len(map) : map[i].name = name].obj

\* Where a help file URL points: "cwd" is defaultHelpFileURL, "module" and
\* "library" are RUN.md next to the calling module and next to main.ts
\* (both on the local disk), "remote" is a URL that is not a file: URL.
IsLocalFile(helpFile) == helpFile # "remote"

\* new CommandLineOptions(contextName, description, helpFile); the id of
\* the new object is Len(S.objs) + 1.  helpFile is the URL after it was
\* resolved against the caller's file (main.ts 121).
Construct(S, contextName, description, helpFile) ==
  LET o == [contextName |-> contextName, description |-> description,
            helpFile |-> helpFile, optionConfigs |-> <<>>]
      S1 == [S EXCEPT !.objs = Append(@, o),
                      !.contexts = MapSet(@, contextName, Len(S.objs) + 1)]
  IN IF S.generatingStaticHelp THEN RequestGenerate(S1) ELSE S1

\* ----------------------------------------------------------- registration
\* #getContextForArgument: <<>> or <<obj, config>> of the first context, in
\* Map order, that has arg as an option name or as an alias of an option
RECURSIVE GetContextForArgument(_, _, _)
GetContextForArgument(S, arg, i) ==
  IF i > Len(S.contexts) THEN <<>>
  ELSE LET obj == S.contexts[i].obj
           ocs == S.objs[obj].optionConfigs
       IN IF Has(ocs, arg) THEN <<obj, Get(ocs, arg)>>
          ELSE IF \E j \in 1..Len(ocs) : arg \in SeqToSet(AliasesOf(ocs[j].cfg))
          THEN <<obj, ocs[CHOOSE j \in 1..Len(ocs) :
                        /\ arg \in SeqToSet(AliasesOf(ocs[j].cfg))
                        /\ \A k \in 1..(j - 1) :
                              arg \notin SeqToSet(AliasesOf(ocs[k].cfg))].cfg>>
          ELSE GetContextForArgument(S, arg, i + 1)

\* one duplicate check of #registerOption (main.ts 339-340, 343-344)
CheckDuplicate(S, this, arg) ==
  LET found == GetContextForArgument(S, arg, 1) IN
  IF found = <<>> \/ found[1] = this THEN S
  ELSE IF ~IsDef(found[2]) THEN Throw(S, "TypeError")
  ELSE IF Flag(found[2], "overload") THEN S
  ELSE [S EXCEPT !.warned = @ \cup
          {[arg |-> FormatArgName(arg),
            existing |-> S.objs[found[1]].contextName,
            new |-> S.objs[this].contextName]}]

RECURSIVE CheckDuplicates(_, _, _)
CheckDuplicates(S, this, args) ==
  IF args = <<>> \/ ~Running(S) THEN S
  ELSE CheckDuplicates(CheckDuplicate(S, this, Head(args)), this, Tail(args))

\* a merge in which the later registration wins
MergeOverwrite(existing, config) ==
  [f \in Fields |-> IF IsDef(config[f]) THEN config[f] ELSE existing[f]]

\* the merge loop of #registerOption (main.ts 352-356)
Merge(existing, config) ==
  [f \in Fields |-> IF ~IsDef(existing[f]) THEN config[f] ELSE existing[f]]

\* the store part of #registerOption (main.ts 348-357)
StoreOption(entries, name, config) ==
  IF ~IsDef(Get(entries, name)) THEN Put(entries, name, config)
  ELSE IF IsDef(config)
  THEN Put(entries, name, Some(Merge(Val(Get(entries, name)), Val(config))))
  ELSE entries

\* #registerOption(name, config) of object this
\* main.ts 348-360, once the duplicate checks are done
StoreAndGenerate(S, this, name, config) ==
  IF ~Running(S) THEN S
  ELSE IF S.generatingStaticHelp
  THEN RequestGenerate(
         [S EXCEPT !.objs[this].optionConfigs = StoreOption(@, name, config),
                   !.regLog = Append(@, [obj |-> this, name |-> name, cfg |-> config])])
  ELSE [S EXCEPT !.objs[this].optionConfigs = StoreOption(@, name, config),
                 !.regLog = Append(@, [obj |-> this, name |-> name, cfg |-> config])]

\* #registerOption(name, config) of object this
RegisterOption(S, this, name, config) ==
  IF ~Running(S) THEN S
  ELSE IF S.globalLockContext # 0 THEN Exit(S, ErrorExitCode, "locked")
  ELSE StoreAndGenerate(
         IF ~Flag(config, "overload") /\ ~S.showHelp
         THEN CheckDuplicates(S, this, <<name>> \o AliasesOf(config))
         ELSE S,
         this, name, config)

\* ------------------------------------------------------ JavaScript values
\* A raw or coerced value is [ty, v]: ty is its JavaScript type and v the
\* sequence of its parts as strings (one part for a scalar, the elements
\* for an array, none for undefined).
Undefined == [ty |-> "undefined", v |-> <<>>]
Str(s) == [ty |-> "string", v |-> <<s>>]
Bool(b) == [ty |-> "boolean", v |-> <<IF b THEN "true" ELSE "false">>]
Arr(elems) == [ty |-> "array", v |-> elems]
IsArray(x) == x.ty = "array"

\* the characters of the strings that can reach the numeric check; every
\* other string of the pools is made of letters only
Chars(s) ==
  CASE s = "" -> <<>>
    [] s = "5" -> <<"5">>
    [] s = "42.5" -> <<"4", "2", ".", "5">>
    [] s = "1.2.3" -> <<"1", ".", "2", ".", "3">>
    [] s = "." -> <<".">>
    [] s = "100" -> <<"1", "0", "0">>
    [] OTHER -> <<"a">>

Digits == {"0", "1", "2", "3", "4", "5", "6", "7", "8", "9"}

\* /^[\d.]+$/
MatchesNumberPattern(s) ==
  /\ Chars(s) # <<>>
  /\ \A i \in 1..Len(Chars(s)) : Chars(s)[i] \in Digits \cup {"."}

\* parseFloat: the value of the longest prefix that is a decimal literal
\* (digits, at most one dot, at least one digit), as the characters of that
\* prefix, or NaN when there is none
RECURSIVE FloatPrefix(_, _, _)
FloatPrefix(cs, i, seenDot) ==
  IF i > Len(cs) THEN i - 1
  ELSE IF cs[i] \in Digits THEN FloatPrefix(cs, i + 1, seenDot)
  ELSE IF cs[i] = "." /\ ~seenDot THEN FloatPrefix(cs, i + 1, TRUE)
  ELSE i - 1

RECURSIVE JoinChars(_)
JoinChars(cs) == IF cs = <<>> THEN "" ELSE Head(cs) \o JoinChars(Tail(cs))

ParseFloat(s) ==
  LET cs == Chars(s)
      n == FloatPrefix(cs, 1, FALSE)
      pre == SubSeq(cs, 1, n)
  IN IF \E i \in 1..n : pre[i] \in Digits
     THEN [ty |-> "number", v |-> <<JoinChars(pre)>>]
     ELSE [ty |-> "number", v |-> <<"NaN">>]

\* ------------------------------------------------------ parser definition
\* #getEmptyOptionParserDefinition
EmptyDef ==
  [string |-> {}, boolean |-> {}, alias |-> <<>>, default |-> <<>>, collect |-> {}]

RECURSIVE AddAliases(_, _, _)
AddAliases(alias, as, name) ==
  IF as = <<>> THEN alias
  ELSE AddAliases(Put(alias, Head(as), name), Tail(as), name)

\* #addOptionConfigToParserDefinition (alias and default are dictionaries:
\* the cfg of an entry is the canonical name, or the default value)
AddOptionConfigToParserDefinition(def, name, config) ==
  LET isString == TypeIs(config, "string") \/ TypeIs(config, "number")
                    \/ TypeIs(config, "URL")
  IN [string |-> IF isString THEN def.string \cup {name} ELSE def.string,
      boolean |-> IF isString THEN def.boolean ELSE def.boolean \cup {name},
      alias |-> AddAliases(def.alias, AliasesOf(config), name),
      default |-> IF IsDef(config) /\ IsDef(Val(config)["default"])
                  THEN Put(def.default, name, Val(config)["default"][1])
                  ELSE def.default,
      collect |-> IF Flag(config, "multiple") THEN def.collect \cup {name}
                  ELSE def.collect]

\* ---------------------------------------------------------------- tokenizer
\* parse() of std/flags as main.ts uses it.  A token of argv is
\*   [t |-> "bare", s |-> text]     a token that does not start with "-"
\*   [t |-> "key", s |-> key]       --key or -k
\* and a key that is not boolean takes a following bare token as its value.
Bare(s) == [t |-> "bare", s |-> s]
Key(k) == [t |-> "key", s |-> k]

Canon(def, k) == IF Has(def.alias, k) THEN Get(def.alias, k) ELSE k
ArgDefined(def, k) == Canon(def, k) \in def.string \cup def.boolean
IsBoolKey(def, k) == Canon(def, k) \in def.boolean
IsStringKey(def, k) == Canon(def, k) \in def.string

\* setKey of std/flags: parsed is a dictionary from name to value
SetKey(def, parsed, name, value, collect) ==
  LET old == IF Has(parsed, name) THEN Get(parsed, name) ELSE Undefined IN
  IF ~(collect /\ name \in def.collect) THEN Put(parsed, name, value)
  ELSE IF old = Undefined THEN Put(parsed, name, Arr(value.v))
  ELSE IF IsArray(old) THEN Put(parsed, name, Arr(old.v \o value.v))
  ELSE Put(parsed, name, Arr(old.v \o value.v))

\* an unknown callback that collects every bare token, whatever multiple is
UnknownNoLimit(cb, arg, keyed) ==
  IF cb.exit # "" THEN cb
  ELSE IF cb.command # None /\ cb.isFirst
  THEN [cb EXCEPT !.isFirst = FALSE,
                  !.valid = IF keyed \/ arg # Val(cb.command) THEN FALSE ELSE @]
  ELSE IF cb.collector # None /\ ~keyed
  THEN [cb EXCEPT !.collected = Append(@, arg), !.isFirst = FALSE]
  ELSE IF cb.throwOnInvalid
  THEN [cb EXCEPT !.exit = "invalid option", !.invalidArg = arg]
  ELSE [cb EXCEPT !.isFirst = FALSE]

\* an unknown callback that never reports an invalid option
UnknownLenient(cb, arg, keyed) ==
  IF cb.exit # "" THEN cb
  ELSE IF cb.command # None /\ cb.isFirst
  THEN [cb EXCEPT !.isFirst = FALSE,
                  !.valid = IF keyed \/ arg # Val(cb.command) THEN FALSE ELSE @]
  ELSE IF cb.collector # None /\ ~keyed
  THEN IF ~cb.collectorMultiple /\ cb.collected # <<>>
       THEN [cb EXCEPT !.exit = "too many collected arguments"]
       ELSE [cb EXCEPT !.collected = Append(@, arg), !.isFirst = FALSE]
  ELSE [cb EXCEPT !.isFirst = FALSE]

\* the unknown callback of #getArgValues (main.ts 235-261); cb holds the
\* variables the closure captures and the exit it may have caused
Unknown(cb, arg, keyed) ==
  IF cb.exit # "" THEN cb
  ELSE IF cb.command # None /\ cb.isFirst
  THEN [cb EXCEPT !.isFirst = FALSE,
                  !.valid = IF keyed \/ arg # Val(cb.command) THEN FALSE ELSE @]
  ELSE IF cb.collector # None /\ ~keyed
  THEN IF ~cb.collectorMultiple /\ cb.collected # <<>>
       THEN [cb EXCEPT !.exit = "too many collected arguments"]
       ELSE [cb EXCEPT !.collected = Append(@, arg), !.isFirst = FALSE]
  ELSE IF cb.throwOnInvalid
  THEN [cb EXCEPT !.exit = "invalid option", !.invalidArg = arg]
  ELSE [cb EXCEPT !.isFirst = FALSE]

\* setArg of std/flags for a keyed token
SetArg(def, st, k, value) ==
  IF ~ArgDefined(def, k)
  THEN IF st.cb.installed
       THEN [st EXCEPT !.cb = Unknown(@, FormatArgName(k), TRUE)]
       ELSE st
  ELSE [st EXCEPT !.parsed = SetKey(def, @, Canon(def, k), value, TRUE)]

RECURSIVE ParseTokens(_, _, _, _)
ParseTokens(args, def, st, i) ==
  IF i > Len(args) \/ st.cb.exit # "" THEN st
  ELSE IF args[i].t = "key"
  THEN IF i < Len(args) /\ args[i + 1].t = "bare" /\ ~IsBoolKey(def, args[i].s)
       THEN ParseTokens(args, def,
              SetArg(def, st, args[i].s, Str(args[i + 1].s)), i + 2)
       ELSE ParseTokens(args, def,
              SetArg(def, st, args[i].s,
                     IF IsStringKey(def, args[i].s) THEN Str("") ELSE Bool(TRUE)),
              i + 1)
  ELSE ParseTokens(args, def,
         IF st.cb.installed THEN [st EXCEPT !.cb = Unknown(@, args[i].s, FALSE)]
         ELSE st,
         i + 1)

RECURSIVE ApplyDefaults(_, _, _)
ApplyDefaults(def, parsed, ds) ==
  IF ds = <<>> THEN parsed
  ELSE ApplyDefaults(def,
         IF Has(parsed, Head(ds).name) THEN parsed
         ELSE SetKey(def, parsed, Head(ds).name, Str(Head(ds).cfg), TRUE),
         Tail(ds))

\* the value parse() gives a name: the parsed one, else the default, else
\* false or [] for a boolean key and [] for a collected string key
Parsed(def, parsed, name) ==
  LET p == ApplyDefaults(def, parsed, def.default) IN
  IF Has(p, name) THEN Get(p, name)
  ELSE IF name \in def.boolean
  THEN (IF name \in def.collect THEN Arr(<<>>) ELSE Bool(FALSE))
  ELSE IF name \in def.string /\ name \in def.collect THEN Arr(<<>>)
  ELSE Undefined

\* ------------------------------------------------------------ #getArgValues
\* #getCollectorArgForNotPrefixedArgs: the last option that sets
\* collectNotPrefixedArgs, and whether a second one was met
RECURSIVE GetCollectorArgForNotPrefixedArgs(_, _)
GetCollectorArgForNotPrefixedArgs(options, acc) ==
  IF options = <<>> \/ acc.dup THEN acc
  ELSE GetCollectorArgForNotPrefixedArgs(Tail(options),
         IF Flag(Head(options).cfg, "collectNotPrefixedArgs")
         THEN (IF acc.arg # None THEN [acc EXCEPT !.dup = TRUE]
               ELSE [acc EXCEPT !.arg = Some(Head(options).name)])
         ELSE acc)

\* #validateNumber for one raw string; "" in exit means no exit
ValidateNumber(raw) ==
  IF ~MatchesNumberPattern(raw) THEN [exit |-> "not a number", value |-> Undefined]
  ELSE [exit |-> "", value |-> ParseFloat(raw)]

\* #validateURL for one raw string
ValidateURL(raw) == [ty |-> "URL", v |-> <<raw>>]

\* the coercion of one option's raw value (main.ts 292-300)
Coerce(config, val) ==
  IF TypeIs(config, "number")
  THEN IF val = Undefined THEN [exit |-> "", value |-> Undefined]
       ELSE IF \E i \in 1..Len(val.v) : ValidateNumber(val.v[i]).exit # ""
       THEN [exit |-> "not a number", value |-> Undefined]
       ELSE [exit |-> "",
             value |-> IF IsArray(val)
                       THEN Arr([i \in 1..Len(val.v) |->
                                   ValidateNumber(val.v[i]).value.v[1]])
                       ELSE ValidateNumber(val.v[1]).value]
  ELSE IF TypeIs(config, "URL")
  THEN IF val = Undefined THEN [exit |-> "", value |-> Undefined]
       ELSE [exit |-> "",
             value |-> IF IsArray(val) THEN val ELSE ValidateURL(val.v[1])]
  ELSE [exit |-> "", value |-> val]

\* a required check that never finds an option missing
MissingRequiredNever(config, val) == FALSE

\* the required check (main.ts 281)
MissingRequired(config, val) ==
  /\ Flag(config, "required")
  /\ \/ ~Flag(config, "multiple") /\ val = Undefined
     \/ Flag(config, "multiple") /\ val.v = <<>>

\* the empty string check (main.ts 287): !val || !val.length
EmptyString(config, val) ==
  /\ TypeIs(config, "string")
  /\ IsDef(config) /\ Val(config)["allowEmptyString"] = Some(FALSE)
  /\ \/ val = Undefined
     \/ val = Bool(FALSE)
     \/ val = Str("")
     \/ IsArray(val) /\ val.v = <<>>

NoResult == [kind |-> "none", values |-> <<>>]
Null == [kind |-> "null", values |-> <<>>]
Values(vs) == [kind |-> "values", values |-> vs]

\* one pass of the loop over the options of the call (main.ts 278-300) for
\* the option name with config, raw value val and coerced value c
RECURSIVE CoerceAll(_, _, _, _, _, _)
CoerceOne(S, this, options, def, parsed, values, name, config, val, c) ==
  IF MissingRequired(config, val)
  THEN [S |-> IF Flag(Get(S.objs[this].optionConfigs, name), "_dev")
              THEN Throw(S, "TypeError")
              ELSE Exit(S, ErrorExitCode, "missing option"),
        values |-> values]
  ELSE IF EmptyString(config, val)
  THEN [S |-> Exit(S, ErrorExitCode, "empty string"), values |-> values]
  ELSE IF c.exit # ""
  THEN [S |-> Exit(S, ErrorExitCode, c.exit), values |-> values]
  ELSE CoerceAll(S, this, Tail(options), def, parsed, Put(values, name, c.value))

\* the loop over the options of the call (main.ts 277-301)
CoerceAll(S, this, options, def, parsed, values) ==
  IF options = <<>> \/ ~Running(S) THEN [S |-> S, values |-> values]
  ELSE CoerceOne(S, this, options, def, parsed, values,
                 Head(options).name, Head(options).cfg,
                 Parsed(def, parsed, Head(options).name),
                 Coerce(Head(options).cfg,
                        Parsed(def, parsed, Head(options).name)))

\* the variables the unknown callback captures (main.ts 227-234)
Callback(opts, coll, command, throwOnInvalid) ==
  [installed |-> command # None \/ throwOnInvalid \/ coll.arg # None,
   command |-> command,
   throwOnInvalid |-> throwOnInvalid,
   collector |-> coll.arg,
   collectorMultiple |->
     coll.arg # None /\ Flag(Get(opts, Val(coll.arg)), "multiple"),
   isFirst |-> TRUE, valid |-> TRUE, collected |-> <<>>,
   exit |-> "", invalidArg |-> ""]

\* the collected arguments go to the collector option (main.ts 266-271);
\* cur is what parse() gave the collector option
PutCollected(parsed, n, cur, collected) ==
  IF IsArray(cur) THEN Put(parsed, n, Arr(cur.v \o collected))
  ELSE IF collected # <<>> THEN Put(parsed, n, Str(collected[1]))
  ELSE parsed

WithCollected(def, coll, st) ==
  IF coll.arg = None THEN st.parsed
  ELSE PutCollected(st.parsed, Val(coll.arg),
                    Parsed(def, st.parsed, Val(coll.arg)), st.cb.collected)

\* main.ts 303: r is the outcome of the loop over the options
ReturnValues(r) ==
  [S |-> r.S, result |-> IF Running(r.S) THEN Values(r.values) ELSE NoResult]

\* main.ts 264-303: st is the outcome of parse(Deno.args, def)
AfterParse(S, this, opts, def, coll, st) ==
  IF st.cb.exit # ""
  THEN [S |-> [Exit(S, ErrorExitCode, st.cb.exit) EXCEPT
                  !.status.arg = st.cb.invalidArg],
        result |-> NoResult]
  ELSE IF ~st.cb.valid THEN [S |-> S, result |-> Null]
  ELSE ReturnValues(CoerceAll(S, this, opts, def, WithCollected(def, coll, st), <<>>))

\* main.ts 229-264: coll is the outcome of #getCollectorArgForNotPrefixedArgs
WithCollector(S, this, opts, def, command, throwOnInvalid, coll) ==
  IF coll.dup
  THEN [S |-> Exit(S, ErrorExitCode, "multiple collectors"), result |-> NoResult]
  ELSE AfterParse(S, this, opts, def, coll,
         ParseTokens(S.argv, def,
           [parsed |-> <<>>, cb |-> Callback(opts, coll, command, throwOnInvalid)],
           1))

\* options ?? {}
OrEmpty(options) == IF IsDef(options) THEN Val(options) ELSE <<>>

\* #getArgValues(options, def, command, throwOnInvalid) of object this, on
\* the process arguments S.argv: the new process state and the result
GetArgValues(S, this, options, def, command, throwOnInvalid) ==
  IF ~Running(S) THEN [S |-> S, result |-> NoResult]
  ELSE WithCollector(S, this, OrEmpty(options), def, command, throwOnInvalid,
         GetCollectorArgForNotPrefixedArgs(OrEmpty(options),
                                           [arg |-> None, dup |-> FALSE]))

\* ---------------------------------------------------------- public methods
\* the loop of options() and command() (main.ts 143-146, 171-174)
RECURSIVE RegisterAll(_, _, _, _)
RegisterAll(S, this, options, def) ==
  IF options = <<>> \/ ~Running(S) THEN [S |-> S, def |-> def]
  ELSE RegisterAll(RegisterOption(S, this, Head(options).name, Head(options).cfg),
                   this, Tail(options),
                   AddOptionConfigToParserDefinition(def, Head(options).name,
                                                     Head(options).cfg))

\* option(name, config) of object this
OptionCall(S, this, name, config) ==
  GetArgValues(RegisterOption(S, this, name, config), this,
               Some(<<[name |-> name, cfg |-> config]>>),
               AddOptionConfigToParserDefinition(EmptyDef, name, config),
               None, FALSE)

\* options() that never sets the lock
SetGlobalLockNever(S, this, allowOtherOptions) == S

\* main.ts 148
SetGlobalLock(S, this, allowOtherOptions) ==
  IF Running(S) /\ ~allowOtherOptions
  THEN [S EXCEPT !.globalLockContext = this] ELSE S

\* options(options, allowOtherOptions) of object this
\* main.ts 148-150: r is the outcome of the registration loop
OptionsValues(this, options, allowOtherOptions, r) ==
  GetArgValues(SetGlobalLock(r.S, this, allowOtherOptions), this, Some(options),
               r.def, None, ~allowOtherOptions)

\* options(options, allowOtherOptions) of object this
OptionsCall(S, this, options, allowOtherOptions) ==
  OptionsValues(this, options, allowOtherOptions,
                RegisterAll(S, this, options, EmptyDef))

\* command() that never finds its name locked
CommandIsLockedNever(S, name) == FALSE

\* main.ts 164
CommandIsLocked(S, name) == MapHas(S.lockedCommands, name)

\* main.ts 176
LockCommand(S, this, name, allowOtherOptionsForCommand) ==
  IF Running(S) /\ ~allowOtherOptionsForCommand
  THEN [S EXCEPT !.lockedCommands = MapSet(@, name, this)] ELSE S

\* main.ts 176-178: r is the outcome of the registration loop
CommandValues(this, name, options, allowOtherOptionsForCommand, r) ==
  GetArgValues(LockCommand(r.S, this, name, allowOtherOptionsForCommand), this,
               options, r.def, Some(name), ~allowOtherOptionsForCommand)

\* command(name, options, allowOtherOptionsForCommand) of object this;
\* options is None when the argument is omitted
CommandCall(S, this, name, options, allowOtherOptionsForCommand) ==
  IF CommandIsLocked(S, name)
  THEN [S |-> Exit(S, ErrorExitCode, "command locked"), result |-> NoResult]
  ELSE CommandValues(this, name, options, allowOtherOptionsForCommand,
                     RegisterAll(S, this, OrEmpty(options), EmptyDef))

\* ------------------------------------------------------------ help rendering
\* A help text is a sequence of lines; the text is the lines joined by "\n".
\*   [k |-> "blank"]                        an empty line
\*   [k |-> "text", s]                      a line of prose
\*   [k |-> "h2", s], [k |-> "h3", s]       "## s" and "### s"
\*   [k |-> "item", args, placeholder, width, description]
\*        " * `<args joined by ", "> <placeholder>`" padded to width, one
\*        space, description; an arg is [dash, name]: "-n" or "--name"
Blank == [k |-> "blank"]
Text(s) == [k |-> "text", s |-> s]
H2(s) == [k |-> "h2", s |-> s]
H3(s) == [k |-> "h3", s |-> s]

\* #formatArgName, as the parts of the formatted name
FormatArg(name) == [dash |-> IF Len(name) = 1 THEN 1 ELSE 2, name |-> name]

\* #getAliases(name, true)
GetAliases(config, name) ==
  [i \in 1..Len(AliasesOf(config)) |-> FormatArg(AliasesOf(config)[i])]
    \o <<FormatArg(name)>>

\* #getPlacholdder, through the type test of #getArg (main.ts 389, 400)
GetPlaceholder(config) ==
  IF IsDef(config) /\ ~TypeIs(config, "boolean")
     /\ IsDef(Val(config)["placeholder"]) /\ Val(config)["placeholder"][1] # ""
  THEN Val(config)["placeholder"] ELSE None

\* #getArg(name, type): <<>> when the option is skipped, else <<data>>
GetArg(entry, type) ==
  IF Flag(entry.cfg, "_dev") THEN <<>>
  ELSE IF type = "required" /\ ~Flag(entry.cfg, "required") THEN <<>>
  ELSE IF type = "optional" /\ Flag(entry.cfg, "required") THEN <<>>
  ELSE <<[args |-> GetAliases(entry.cfg, entry.name),
          placeholder |-> GetPlaceholder(entry.cfg),
          description |->
            IF IsDef(entry.cfg) /\ IsDef(Val(entry.cfg)["description"])
            THEN Val(entry.cfg)["description"][1] ELSE "",
          default |-> IF IsDef(entry.cfg) THEN Val(entry.cfg)["default"] ELSE None]>>

\* #getArgs(type)
RECURSIVE GetArgs(_, _)
GetArgs(entries, type) ==
  IF entries = <<>> THEN <<>>
  ELSE GetArg(Head(entries), type) \o GetArgs(Tail(entries), type)

RECURSIVE SumLen(_)
SumLen(args) ==
  IF args = <<>> THEN 0
  ELSE Head(args).dash + Len(Head(args).name) + SumLen(Tail(args))

\* the length of MarkdownGenerator.formatPrefix(args, placeholder)
PrefixSize(a) ==
  4 + SumLen(a.args) + 2 * (Len(a.args) - 1)
    + (IF IsDef(a.placeholder) THEN 1 + Len(Val(a.placeholder)) ELSE 0) + 1

\* one entry line before alignment (main.ts 426-430): width is set later
ItemLine(a) ==
  [k |-> "item", args |-> a.args, placeholder |-> a.placeholder, width |-> 0,
   description |-> a.description \o
      (IF IsDef(a.default) /\ Val(a.default) # ""
       THEN " (default: " \o Val(a.default) \o ")" ELSE "")]

Max(a, b) == IF a > b THEN a ELSE b

RECURSIVE MaxPrefix(_)
MaxPrefix(as) == IF as = <<>> THEN 0 ELSE Max(PrefixSize(Head(as)), MaxPrefix(Tail(as)))

\* generateHelp(generator) of one object with the Markdown generator: the
\* lines of its content and the largest prefix size
GenerateHelp(o) ==
  LET requiredArgs == GetArgs(o.optionConfigs, "required")
      optionalArgs == GetArgs(o.optionConfigs, "optional")
  IN [lines |->
        <<H2(o.contextName)>>
        \o (IF IsDef(o.description) /\ Val(o.description) # ""
            THEN <<Text(Val(o.description))>> ELSE <<>>)
        \o (IF requiredArgs # <<>> THEN <<Blank, H3("Required")>> ELSE <<Blank>>)
        \o [i \in 1..Len(requiredArgs) |-> ItemLine(requiredArgs[i])]
        \o (IF requiredArgs # <<>> /\ optionalArgs # <<>>
            THEN <<Blank, H3("Optional")>> ELSE <<>>)
        \o [i \in 1..Len(optionalArgs) |-> ItemLine(optionalArgs[i])],
      max |-> MaxPrefix(requiredArgs \o optionalArgs)]

\* the objects static generateHelp walks (main.ts 461), then the content of
\* defaultOptions moved to the end (main.ts 464-468)
RenderOrder(S, keepOrder) ==
  LET all == [i \in 1..Len(S.contexts) |-> S.contexts[i].obj]
      walk == IF keepOrder THEN all ELSE Reverse(all)
  IN SelectSeq(walk, LAMBDA o : o # S.defaultOptions)
       \o SelectSeq(walk, LAMBDA o : o = S.defaultOptions)

RECURSIVE ConcatContents(_, _)
ConcatContents(S, order) ==
  IF order = <<>> THEN <<>>
  ELSE <<Blank>> \o GenerateHelp(S.objs[Head(order)]).lines
         \o ConcatContents(S, Tail(order))

RECURSIVE MaxOver(_, _)
MaxOver(S, order) ==
  IF order = <<>> THEN 0
  ELSE Max(GenerateHelp(S.objs[Head(order)]).max, MaxOver(S, Tail(order)))

\* static generateHelp(markdownHelpGenerator, keepOrder): the preamble, the
\* contents joined by "\n", and every prefix padded to the largest size
\* MarkdownGenerator.formatPrefix pads every entry to the largest size w
Align(body, w) ==
  [i \in 1..Len(body) |->
     IF body[i].k = "item" THEN [body[i] EXCEPT !.width = w] ELSE body[i]]

\* main.ts 462-471: order is the walk over the contexts
Render(S, order) ==
  <<Text(S.generalDescription)>> \o Align(ConcatContents(S, order), MaxOver(S, order))

GenerateHelpStatic(S, keepOrder) == Render(S, RenderOrder(S, keepOrder))

\* ------------------------------------------------------ parsing a help file
\* the lines of the document before its first "## " line, and the sections
\* that split(/^## /gm) yields: [name, body]
RECURSIVE FirstH2(_, _)
FirstH2(lines, i) ==
  IF i > Len(lines) THEN i
  ELSE IF lines[i].k = "h2" THEN i ELSE FirstH2(lines, i + 1)

RECURSIVE SplitSections(_)
SplitSections(lines) ==
  IF lines = <<>> THEN <<>>
  ELSE LET n == FirstH2(lines, 2)
       IN <<[name |-> lines[1].s, body |-> SubSeq(lines, 2, n - 1)]>>
            \o SplitSections(SubSeq(lines, n, Len(lines)))

\* e.split(/\n+/) without the name: the lines that are not empty (the
\* empty string that ends the parts of a section is no line of the body)
Parts(body) == SelectSeq(body, LAMBDA l : l.k # "blank")

IsTerminator(l) == l.k \in {"h3", "item"}

RECURSIVE FirstTerminator(_, _)
FirstTerminator(parts, i) ==
  IF i > Len(parts) THEN 0
  ELSE IF IsTerminator(parts[i]) THEN i ELSE FirstTerminator(parts, i + 1)

RECURSIVE JoinLines(_)
JoinLines(ts) ==
  IF ts = <<>> THEN ""
  ELSE IF Len(ts) = 1 THEN ts[1].s
  ELSE ts[1].s \o "\n" \o JoinLines(Tail(ts))

\* the config parseHelpMarkdownFile builds from one entry line (541-553)
ItemConfig(item, required) ==
  LET names == [i \in 1..Len(item.args) |-> item.args[i].name]
      r == [aliases |-> SubSeq(names, 1, Len(names) - 1),
            required |-> required,
            description |-> item.description]
  IN [name |-> names[Len(names)],
      cfg |-> IF IsDef(item.placeholder)
              THEN [Cfg(r) EXCEPT !["placeholder"] = item.placeholder]
              ELSE Cfg(r)]

\* the loop over the parts of one section (main.ts 527-554)
RECURSIVE ParseParts(_, _, _, _)
ParseParts(S, c, parts, required) ==
  IF parts = <<>> \/ ~Running(S) THEN S
  ELSE LET part == Head(parts) IN
    IF part.k = "h3" /\ part.s = "Required" THEN ParseParts(S, c, Tail(parts), TRUE)
    ELSE IF part.k = "h3" /\ part.s = "Optional"
    THEN ParseParts(S, c, Tail(parts), FALSE)
    ELSE IF part.k # "item" THEN ParseParts(S, c, Tail(parts), required)
    ELSE IF ItemConfig(part, required).name = ""
    THEN ParseParts(S, c, Tail(parts), required)
    ELSE ParseParts(RegisterOption(S, c, ItemConfig(part, required).name,
                                   Some(ItemConfig(part, required).cfg)),
                    c, Tail(parts), required)

\* one pass of the loop over the sections (main.ts 517-557).  The loop
\* that gathers the description ends only at a part that starts with "#"
\* or " *"; when the parts run out first it goes on appending "undefined"
\* until the string cannot grow, and the exception ends the parsing.
RECURSIVE ParseSections(_, _)
ParseSection(S, sections, name, parts, t) ==
  IF name = "" THEN ParseSections(S, Tail(sections))
  ELSE IF t = 0 THEN Throw(S, "RangeError")
  ELSE IF MapHas(S.contexts, name)
  THEN ParseSections(ParseParts(S, MapObj(S.contexts, name),
                                SubSeq(parts, t, Len(parts)), FALSE),
                     Tail(sections))
  ELSE ParseSections(
         ParseParts(Construct(S, name,
                              IF JoinLines(SubSeq(parts, 1, t - 1)) = "" THEN None
                              ELSE Some(JoinLines(SubSeq(parts, 1, t - 1))),
                              "library"),
                    Len(S.objs) + 1, SubSeq(parts, t, Len(parts)), FALSE),
         Tail(sections))

\* the loop over the sections (main.ts 517)
ParseSections(S, sections) ==
  IF sections = <<>> \/ ~Running(S) THEN S
  ELSE ParseSection(S, sections, Head(sections).name, Parts(Head(sections).body),
                    FirstTerminator(Parts(Head(sections).body), 1))

\* main.ts 559-562: an exception inside the try block makes the result
\* false and leaves what the block did before it; S is the state before
\* the block and S2 the state after it
TryResult(S, S2) ==
  IF S2.status.state = "threw"
  THEN [S |-> [S2 EXCEPT !.status = S.status], ok |-> FALSE]
  ELSE [S |-> S2, ok |-> Running(S2)]

\* main.ts 514-517: n is the index of the first "## " line
ParseDocument(S, lines, n) ==
  ParseSections(
    [S EXCEPT !.generalDescription =
       JoinLines(SelectSeq(SubSeq(lines, 1, n - 1), LAMBDA l : l.k = "text"))],
    SplitSections(SubSeq(lines, n, Len(lines))))

\* static parseHelpMarkdownFile(file): file is None when there is no such
\* file
ParseHelpMarkdownFile(S, file) ==
  IF ~IsDef(file) THEN [S |-> S, ok |-> FALSE]
  ELSE TryResult(S, ParseDocument(S, Val(file), FirstH2(Val(file), 1)))

\* ------------------------------------------------------- deferred handlers
\* generateHelpMarkdownFile(log) of one object (main.ts 445-450)
WriteHelpFile(S, obj) ==
  IF ~IsLocalFile(S.objs[obj].helpFile) THEN S
  ELSE [S EXCEPT !.files[S.objs[obj].helpFile] = Some(GenerateHelpStatic(S, TRUE)),
                 !.writes = Append(@, obj)]

\* the contexts whose help file is local, in Map order
LocalContexts(S) ==
  SelectSeq([i \in 1..Len(S.contexts) |-> S.contexts[i].obj],
            LAMBDA o : IsLocalFile(S.objs[o].helpFile))

\* the callback of the timer of static generateHelpMarkdownFile (483-494)
WriteTimer(S) ==
  IF LocalContexts(S) # <<>>
  THEN WriteHelpFile([S EXCEPT !.generating = FALSE],
                     LocalContexts(S)[Len(LocalContexts(S))])
  ELSE IF S.contexts = <<>> THEN Throw([S EXCEPT !.generating = FALSE], "TypeError")
  ELSE WriteHelpFile([S EXCEPT !.generating = FALSE], S.contexts[1].obj)

\* static printHelp(keepOrder): what console.log receives
PrintHelp(S, keepOrder) ==
  [S EXCEPT !.printed = Some(GenerateHelpStatic(S, keepOrder))]

\* a collector that neither sets the exit timer nor calls Deno.exit
RunCollectorNoExit(S) ==
  IF S.collector = "generate" THEN RequestGenerate(S)
  ELSE IF S.collector = "print" THEN PrintHelp(S, TRUE)
  ELSE S

\* the collector callbacks installed by the module (main.ts 630-634, 647-650)
RunCollector(S) ==
  IF S.collector = "generate"
  THEN SetTimeout(RequestGenerate(S), "exit", ExitDelay)
  ELSE IF S.collector = "print" THEN Exit(PrintHelp(S, TRUE), 0, "help printed")
  ELSE S

\* main.ts 115: the timer resolves the promise; S is the state the
\* collector left
AwaitResolve(S) == IF Running(S) THEN SetTimeout(S, "resolve", CaptureDelay) ELSE S

\* static capture() (main.ts 112-118)
CaptureCall(S) ==
  IF S.collector # "none" THEN AwaitResolve(RunCollector(S))
  ELSE Throw(S, "command line options not collecting")

\* ------------------------------------------------------ module initialisation
HelpConfig ==
  Cfg([type |-> "boolean", aliases |-> <<"h">>, description |-> "Show the help page"])
GenerateHelpConfig ==
  Cfg([type |-> "boolean", _dev |-> TRUE,
       description |-> "Run the program with this option to update this help page"])

IsTrue(result, name) ==
  result.kind = "values" /\ Get(result.values, name) = Bool(TRUE)

\* main.ts 625: the default context
NewDefaultOptions(S) ==
  [Construct(S, DefaultContextName, None, "cwd") EXCEPT !.defaultOptions = 1]

\* main.ts 638-651: found is the outcome of parsing the help file
ShowHelpBranch(found) ==
  IF ~Running(found.S) THEN found.S
  ELSE IF found.ok THEN Exit(PrintHelp(found.S, TRUE), 0, "help printed")
  ELSE [found.S EXCEPT !.collecting = TRUE, !.collector = "print"]

\* main.ts 628-652: the branch on generatingStaticHelp and showHelp
InitBranch(S) ==
  IF ~Running(S) THEN S
  ELSE IF S.generatingStaticHelp
  THEN [S EXCEPT !.collecting = TRUE, !.collector = "generate"]
  ELSE IF S.showHelp
  THEN ShowHelpBranch(ParseHelpMarkdownFile(S, S.files["cwd"]))
  ELSE S

\* main.ts 627: r is the outcome of option("generate-help", ...)
SetGeneratingStaticHelp(r) ==
  InitBranch([r.S EXCEPT !.generatingStaticHelp = IsTrue(r.result, "generate-help")])

\* main.ts 626-627: r is the outcome of option("help", ...)
SetShowHelp(r) ==
  SetGeneratingStaticHelp(
    OptionCall([r.S EXCEPT !.showHelp = IsTrue(r.result, "help"),
                           !.collecting = IsTrue(r.result, "help")],
               1, "generate-help", Some(GenerateHelpConfig)))

\* main.ts 624-652
ModuleInitialisation(S) ==
  SetShowHelp(OptionCall(NewDefaultOptions(S), 1, "help", Some(HelpConfig)))

\* ------------------------------------------------------------------ inputs
DefaultGeneralDescription ==
  "# Run Options\nThis file contains an auto-generated list of the available command line options."

\* the process state before the module is evaluated
Fresh(args, cwdFile) ==
  [argv |-> args,
   files |-> [f \in {"cwd", "module", "library"} |-> IF f = "cwd" THEN cwdFile ELSE None],
   status |-> [state |-> "running", code |-> 0, reason |-> "", arg |-> ""],
   objs |-> <<>>, contexts |-> <<>>, defaultOptions |-> 0,
   globalLockContext |-> 0, lockedCommands |-> <<>>,
   showHelp |-> FALSE, generatingStaticHelp |-> FALSE,
   collecting |-> FALSE, collector |-> "none",
   generating |-> FALSE, timers |-> <<>>, now |-> 0,
   generalDescription |-> DefaultGeneralDescription,
   warned |-> {}, regLog |-> <<>>, printed |-> None, writes |-> <<>>]

\* option configs the host program declares
TimeRequired == Cfg([type |-> "string", required |-> TRUE, aliases |-> <<"t">>])
TimeDescribed ==
  Cfg([description |-> "The time", required |-> FALSE, placeholder |-> "TIME"])
SpeedNumber == Cfg([type |-> "number", default |-> "100", aliases |-> <<"s">>])
FilesCollector == Cfg([type |-> "string", collectNotPrefixedArgs |-> TRUE])

Decl(name, cfg) == [name |-> name, cfg |-> cfg]
ContextDecl(name, description, helpFile) ==
  [name |-> name, description |-> description, helpFile |-> helpFile]

TimeMachine == ContextDecl("Time Machine", Some("Time travel"), "module")
Backup == ContextDecl("Backup", None, "remote")
GeneralAgain == ContextDecl(DefaultContextName, None, "remote")

\* a help file that an earlier run with --generate-help wrote
SampleContext ==
  Construct(ModuleInitialisation(Fresh(<<Key("generate-help")>>, None)),
            "Time Machine", Some("Time travel"), "module")

SampleRun(withOption) ==
  IF withOption THEN OptionCall(SampleContext, 2, "time", Some(TimeDescribed)).S
  ELSE SampleContext

SampleFile(withOption) == Some(GenerateHelpStatic(SampleRun(withOption), TRUE))

\* ------------------------------------------------------------------- state
VARIABLES
  argv, files, status,
  objs, contexts, defaultOptions, globalLockContext, lockedCommands,
  showHelp, generatingStaticHelp, collecting, collector,
  generating, timers, now,
  generalDescription, warned, regLog, printed, writes,
  calls,         \* the calls of the host program, each with its result
  capture,       \* "none", "awaiting" (in await capture()) or "resumed"
  loaded,        \* the load event was dispatched
  lastFire       \* the last timer callback and the writes it made

vars ==
  <<argv, files, status, objs, contexts, defaultOptions, globalLockContext,
    lockedCommands, showHelp, generatingStaticHelp, collecting, collector,
    generating, timers, now, generalDescription, warned, regLog, printed,
    writes, calls, capture, loaded, lastFire>>

\* the process state as a record, and the assignment of a record to it
Cur ==
  [argv |-> argv, files |-> files, status |-> status, objs |-> objs,
   contexts |-> contexts, defaultOptions |-> defaultOptions,
   globalLockContext |-> globalLockContext, lockedCommands |-> lockedCommands,
   showHelp |-> showHelp, generatingStaticHelp |-> generatingStaticHelp,
   collecting |-> collecting, collector |-> collector,
   generating |-> generating, timers |-> timers, now |-> now,
   generalDescription |-> generalDescription, warned |-> warned,
   regLog |-> regLog, printed |-> printed, writes |-> writes]

Commit(S) ==
  /\ argv' = S.argv /\ files' = S.files /\ status' = S.status
  /\ objs' = S.objs /\ contexts' = S.contexts
  /\ defaultOptions' = S.defaultOptions
  /\ globalLockContext' = S.globalLockContext
  /\ lockedCommands' = S.lockedCommands
  /\ showHelp' = S.showHelp /\ generatingStaticHelp' = S.generatingStaticHelp
  /\ collecting' = S.collecting /\ collector' = S.collector
  /\ generating' = S.generating /\ timers' = S.timers /\ now' = S.now
  /\ generalDescription' = S.generalDescription /\ warned' = S.warned
  /\ regLog' = S.regLog /\ printed' = S.printed /\ writes' = S.writes

Start(S) ==
  /\ argv = S.argv /\ files = S.files /\ status = S.status
  /\ objs = S.objs /\ contexts = S.contexts
  /\ defaultOptions = S.defaultOptions
  /\ globalLockContext = S.globalLockContext
  /\ lockedCommands = S.lockedCommands
  /\ showHelp = S.showHelp /\ generatingStaticHelp = S.generatingStaticHelp
  /\ collecting = S.collecting /\ collector = S.collector
  /\ generating = S.generating /\ timers = S.timers /\ now = S.now
  /\ generalDescription = S.generalDescription /\ warned = S.warned
  /\ regLog = S.regLog /\ printed = S.printed /\ writes = S.writes

NoFire == [kind |-> "none", writes |-> 0]

\* the state once the module is evaluated: the arguments of the process and
\* the help file of the working directory are the inputs of a run
InitOf(argvs, cwdFiles) ==
  \E args \in argvs, file \in cwdFiles :
    /\ Start(ModuleInitialisation(Fresh(args, file)))
    /\ calls = <<>> /\ capture = "none"
    /\ loaded = FALSE /\ lastFire = NoFire

\* ----------------------------------------------------------------- actions
Call(op, this, name, opts, allow, result) ==
  [op |-> op, this |-> this, name |-> name, opts |-> opts, allow |-> allow,
   result |-> result]

CanCall == Running(Cur) /\ Len(calls) < MaxCalls

\* the objects the host program holds: the ones it constructed itself
HostObjects == 2..Len(objs)

\* the host program made a call and got r: the new state and the result
Record(r, op, this, name, opts, allow) ==
  /\ Commit(r.S)
  /\ calls' = Append(calls, Call(op, this, name, opts, allow, r.result))

\* The declarations an action draws from are given as sequences.
\* new CommandLineOptions(name, description, helpFile)
NewContextOf(decls) ==
  \E d \in Elems(decls) :
    /\ Running(Cur) /\ Len(objs) < MaxObjs
    /\ Commit(Construct(Cur, d.name, d.description, d.helpFile))
    /\ UNCHANGED <<calls, capture, loaded, lastFire>>

\* this.option(name, config)
OptionOf(decls) ==
  \E this \in HostObjects, d \in Elems(decls) :
    /\ CanCall
    /\ Record(OptionCall(Cur, this, d.name, d.cfg), "option", this, d.name, <<d>>, TRUE)
    /\ UNCHANGED <<capture, loaded, lastFire>>

\* this.options(options, allowOtherOptions)
OptionsOf(pool) ==
  \E this \in HostObjects, opts \in Elems(pool), allow \in BOOLEAN :
    /\ CanCall
    /\ Record(OptionsCall(Cur, this, opts, allow), "options", this, "", opts, allow)
    /\ UNCHANGED <<capture, loaded, lastFire>>

\* this.command(name, options, allowOtherOptionsForCommand); None in the
\* pool is the call without options
CommandOf(names, pool) ==
  \E this \in HostObjects, name \in Elems(names), opts \in Elems(pool),
     allow \in BOOLEAN :
    /\ CanCall
    /\ Record(CommandCall(Cur, this, name, opts, allow), "command", this, name,
              OrEmpty(opts), allow)
    /\ UNCHANGED <<capture, loaded, lastFire>>

\* await CommandLineOptions.capture()
Capture ==
  /\ CanCall /\ capture = "none"
  /\ Commit(CaptureCall(Cur))
  /\ capture' = IF status'.state = "running" THEN "awaiting" ELSE capture
  /\ calls' = Append(calls, Call("capture", 0, "", <<>>, FALSE, NoResult))
  /\ UNCHANGED <<loaded, lastFire>>

\* CommandLineOptions.generateHelpMarkdownFile()
GenerateHelpMarkdownFile ==
  /\ CanCall
  /\ Commit(RequestGenerate(Cur))
  /\ calls' = Append(calls, Call("generateHelpMarkdownFile", 0, "", <<>>, FALSE, NoResult))
  /\ UNCHANGED <<capture, loaded, lastFire>>

\* the load event: the listener is the collector, when there is one
LoadEvent ==
  /\ Running(Cur) /\ ~loaded
  /\ Commit(RunCollector(Cur))
  /\ loaded' = TRUE
  /\ UNCHANGED <<calls, capture, lastFire>>

\* the timer the event loop runs next: the earliest due, the oldest of them
NextTimer ==
  CHOOSE i \in 1..Len(timers) :
    /\ \A j \in 1..Len(timers) : timers[i].due <= timers[j].due
    /\ \A j \in 1..(i - 1) : timers[j].due > timers[i].due

RemoveAt(s, i) == SubSeq(s, 1, i - 1) \o SubSeq(s, i + 1, Len(s))

TimerCallback(S, kind) ==
  IF kind = "write" THEN WriteTimer(S)
  ELSE IF kind = "exit" THEN Exit(S, GenerationExitCode, "generated")
  ELSE S

FireTimer ==
  /\ Running(Cur) /\ timers # <<>>
  /\ Commit(TimerCallback([Cur EXCEPT !.timers = RemoveAt(@, NextTimer),
                                      !.now = Max(now, timers[NextTimer].due)],
                          timers[NextTimer].kind))
  /\ capture' = IF timers[NextTimer].kind = "resolve" THEN "resumed" ELSE capture
  /\ lastFire' = [kind |-> timers[NextTimer].kind,
                  writes |-> Len(writes') - Len(writes)]
  /\ UNCHANGED <<calls, loaded>>

\* ------------------------------------------------- registration and locking
\* The host program runs with its required options given, declares contexts
\* and registers options and commands.
Init == InitOf({<<Key("time"), Bare("June")>>}, {None})

NewContext == NewContextOf(<<TimeMachine, Backup>>)

Option ==
  OptionOf(<<Decl("time", Some(TimeRequired)), Decl("time", Some(TimeDescribed)),
            Decl("time", None)>>)

Options ==
  OptionsOf(<< <<Decl("time", Some(TimeRequired))>>,
             <<Decl("time", Some(TimeDescribed)), Decl("speed", Some(SpeedNumber))>> >>)

Command == CommandOf(CommandNames, <<Some(<<Decl("speed", Some(SpeedNumber))>>)>>)

Next ==
  \/ NewContext
  \/ Option
  \/ Options
  \/ Command

Spec == Init /\ [][Next]_vars

\* ------------------------------------------------------ argument resolution
\* The host program declares sub-commands; the process arguments vary.
InitArguments ==
  InitOf({<<>>,
          <<Bare("advanced")>>,
          <<Bare("basic")>>,
          <<Key("speed"), Bare("5")>>,
          <<Bare("advanced"), Key("speed"), Bare("42.5")>>,
          <<Bare("basic"), Key("x")>>,
          <<Bare("basic"), Bare("a"), Bare("b")>>,
          <<Key("x"), Bare("advanced")>>,
          <<Key("speed"), Bare("1.2.3")>>,
          <<Key("speed"), Bare("fast")>>},
         {None})

CommandArguments ==
  CommandOf(CommandNames,
            <<None,
             Some(<<Decl("speed", Some(SpeedNumber))>>),
             Some(<<Decl("time", Some(TimeRequired))>>),
             Some(<<Decl("files", Some(FilesCollector))>>)>>)

\* the host program also declares options outside sub-commands: two
\* options that collect the arguments without a prefix, and a number
\* option under two alias lists and as a repeated option; one options()
\* call declares no option at all
NextArguments ==
  \/ NewContext
  \/ CommandArguments
  \/ OptionOf(<<Decl("files", Some(FilesCollector)),
               Decl("rest", Some(FilesCollector)),
               Decl("speed", Some(SpeedNumber)),
               Decl("speed", Some(Cfg([type |-> "number", aliases |-> <<"v">>]))),
               Decl("speed", Some(Cfg([type |-> "number", multiple |-> TRUE])))>>)
  \/ OptionsOf(<< <<Decl("speed", Some(SpeedNumber))>>,
                  <<Decl("files", Some(FilesCollector)),
                    Decl("rest", Some(FilesCollector))>>,
                  <<>> >>)

SpecArguments == InitArguments /\ [][NextArguments]_vars

\* ------------------------------------------------------------- help modes
\* The process runs normally, with --generate-help, or with --help and
\* with or without a help file in the working directory; the host program
\* declares contexts and options, asks for the help file and awaits
\* capture(), and the event loop runs the load event and the timers.
InitHelp ==
  \/ InitOf({<<>>, <<Key("generate-help")>>}, {None})
  \/ InitOf({<<Key("help")>>}, {None, SampleFile(TRUE), SampleFile(FALSE)})

NewContextHelp == NewContextOf(<<TimeMachine, GeneralAgain>>)

OptionHelp ==
  OptionOf(<<Decl("time", Some(TimeRequired)), Decl("time", Some(TimeDescribed))>>)

NextHelp ==
  \/ NewContextHelp
  \/ OptionHelp
  \/ Capture
  \/ GenerateHelpMarkdownFile
  \/ LoadEvent
  \/ FireTimer

SpecHelp == InitHelp /\ [][NextHelp]_vars

\* --------------------------------------------------------- option values
\* The host program declares options that collect the arguments without a
\* prefix, repeated options and required options, in option(), options()
\* and command() calls; the process arguments vary.
InitResolve ==
  InitOf({<<>>,
          <<Bare("a")>>,
          <<Bare("a"), Bare("b")>>,
          <<Key("files"), Bare("x"), Bare("a")>>,
          <<Key("t"), Bare("June"), Key("x")>>,
          <<Bare("advanced"), Key("time"), Bare("June"), Bare("a")>>},
         {None})

OptionResolve ==
  OptionOf(<<Decl("files", Some(FilesCollector)),
            Decl("files", Some(Cfg([type |-> "string", multiple |-> TRUE,
                                    required |-> TRUE,
                                    collectNotPrefixedArgs |-> TRUE]))),
            Decl("time", Some(TimeRequired))>>)

OptionsResolve ==
  OptionsOf(<< <<Decl("time", Some(TimeRequired))>>,
             <<Decl("time", Some(TimeRequired)), Decl("files", Some(FilesCollector))>>,
             <<Decl("files", Some(Cfg([type |-> "string", multiple |-> TRUE,
                                       required |-> TRUE,
                                       collectNotPrefixedArgs |-> TRUE])))>> >>)

CommandResolve ==
  CommandOf(<<"advanced">>,
            <<Some(<<Decl("time", Some(TimeRequired))>>),
             Some(<<Decl("time", Some(TimeRequired)),
                    Decl("files", Some(FilesCollector))>>)>>)

NextResolve ==
  \/ NewContextOf(<<TimeMachine>>)
  \/ OptionResolve
  \/ OptionsResolve
  \/ CommandResolve

SpecResolve == InitResolve /\ [][NextResolve]_vars

\* ------------------------------------------------- without the Deno global
\* The module is evaluated where globalThis.Deno is not set: the block at
\* main.ts 624 is skipped and no default context is constructed.  The host
\* program declares contexts and asks for the help file.
InitBare ==
  /\ Start(Fresh(<<>>, None))
  /\ calls = <<>> /\ capture = "none"
  /\ loaded = FALSE /\ lastFire = NoFire

NextBare ==
  \/ NewContextHelp
  \/ GenerateHelpMarkdownFile
  \/ FireTimer

SpecBare == InitBare /\ [][NextBare]_vars

\* ------------------------------------------------------------------ claims
\* the registrations of name in object o that reached the store, in order
RegistrationsOf(o, name) ==
  SelectSeq(regLog, LAMBDA r : r.obj = o /\ r.name = name)

\* the value of field f in the earliest registration that defines it
RECURSIVE FirstDefined(_, _)
FirstDefined(regs, f) ==
  IF regs = <<>> THEN None
  ELSE IF IsDef(Head(regs).cfg) /\ IsDef(Val(Head(regs).cfg)[f])
  THEN Val(Head(regs).cfg)[f]
  ELSE FirstDefined(Tail(regs), f)

FieldOf(cfg, f) == IF IsDef(cfg) THEN Val(cfg)[f] ELSE None

\* C1: for the registrations of one option name in one context, every
\* field of the registry entry holds the value given by the earliest
\* registration that defined it; a later registration fills the fields
\* that are not set and never replaces one that is.
C1_MergeFirstWins ==
  /\ \A i \in 1..Len(regLog) :
       Has(objs[regLog[i].obj].optionConfigs, regLog[i].name)
  /\ \A o \in 1..Len(objs) : \A i \in 1..Len(objs[o].optionConfigs) :
       LET e == objs[o].optionConfigs[i]
           regs == RegistrationsOf(o, e.name)
       IN /\ regs # <<>>
          /\ \A f \in Fields : FieldOf(e.cfg, f) = FirstDefined(regs, f)

\* a context where "time" was registered with TimeRequired and then with
\* TimeDescribed: required stays TRUE, description and placeholder are filled
C1_Witness ==
  \E o \in 1..Len(objs) :
    /\ Len(RegistrationsOf(o, "time")) >= 2
    /\ RegistrationsOf(o, "time")[1].cfg = Some(TimeRequired)
    /\ RegistrationsOf(o, "time")[2].cfg = Some(TimeDescribed)
    /\ FieldOf(Get(objs[o].optionConfigs, "time"), "required") = Some(TRUE)
    /\ FieldOf(Get(objs[o].optionConfigs, "time"), "description") = Some("The time")
    /\ FieldOf(Get(objs[o].optionConfigs, "time"), "type") = Some("string")

\* some context has called options(cfg, false) and the process went on
ClosedToOtherOptions ==
  \E i \in 1..Len(calls) : calls[i].op = "options" /\ ~calls[i].allow

\* the step is a call of the host program
IsCall == Len(calls') = Len(calls) + 1
NewCall == calls'[Len(calls')]

\* C2: after a context has called options(cfg, allowOtherOptions = false),
\* every later option() or options() call with at least one option, by any
\* context, ends the process with the "locked" error and leaves every
\* registry as it was.
C2_LockedRegistrationIsFatal ==
  [][(ClosedToOtherOptions /\ IsCall /\ NewCall.op \in {"option", "options"}
        /\ NewCall.opts # <<>>)
       => (/\ status'.state = "exited" /\ status'.reason = "locked"
           /\ status'.code = ErrorExitCode
           /\ objs' = objs /\ regLog' = regLog)]_vars

\* a context other than the locker tried to register and the process ended
C2_Witness ==
  /\ Len(calls) = 2
  /\ calls[1].op = "options" /\ ~calls[1].allow
  /\ calls[2].op \in {"option", "options"} /\ calls[2].opts # <<>>
  /\ calls[2].this # calls[1].this
  /\ status.state = "exited" /\ status.reason = "locked"

\* command(name, ...) was called before with or without the lock
CommandDeclared(name, allow) ==
  \E i \in 1..Len(calls) :
    calls[i].op = "command" /\ calls[i].name = name /\ calls[i].allow = allow

\* C3: once command(name, ...) was declared with
\* allowOtherOptionsForCommand = false, every later command(name, ...) call
\* by any context ends the process with an error before any of its options
\* is registered; a command only declared with true is not rejected so.
C3_LockedCommandIsFatal ==
  [][(IsCall /\ NewCall.op = "command")
       => IF CommandDeclared(NewCall.name, FALSE)
          THEN /\ status'.state = "exited" /\ status'.reason = "command locked"
               /\ objs' = objs /\ regLog' = regLog
               /\ lockedCommands' = lockedCommands
          ELSE status'.reason # "command locked"]_vars

\* a second context declared a command that another context had locked
C3_Witness ==
  /\ Len(calls) = 2
  /\ calls[1].op = "command" /\ ~calls[1].allow
  /\ calls[2].op = "command" /\ calls[2].name = calls[1].name
  /\ calls[2].this # calls[1].this /\ calls[2].opts # <<>>
  /\ status.state = "exited" /\ status.reason = "command locked"

\* ---------------------------------------------------- claims: sub-commands
\* the parser definition of the options of one call (main.ts 171-174)
RECURSIVE DefOf(_, _)
DefOf(options, def) ==
  IF options = <<>> THEN def
  ELSE DefOf(Tail(options),
             AddOptionConfigToParserDefinition(def, Head(options).name,
                                               Head(options).cfg))

\* the index of the first token of args that the tokenizer hands to the
\* unknown callback: a key that def does not define (with the value it
\* takes), or a bare token that is no value of a key; 0 when there is none
RECURSIVE FirstUnknown(_, _, _)
FirstUnknown(args, def, i) ==
  IF i > Len(args) THEN 0
  ELSE IF args[i].t = "bare" THEN i
  ELSE IF ~ArgDefined(def, args[i].s) THEN i
  ELSE IF i < Len(args) /\ args[i + 1].t = "bare" /\ ~IsBoolKey(def, args[i].s)
  THEN FirstUnknown(args, def, i + 2)
  ELSE FirstUnknown(args, def, i + 1)

\* the first unknown token of the call is keyed, or bare and not its name
CommandMismatch(args, call) ==
  LET i == FirstUnknown(args, DefOf(call.opts, EmptyDef), 1)
  IN i # 0 /\ (args[i].t = "key" \/ args[i].s # call.name)

\* the reasons of the exits that validate the arguments of the process
ValidationErrors ==
  {"missing option", "empty string", "not a number", "invalid option",
   "too many collected arguments"}

\* C4: for command(name, cfg) and an argv whose first unknown token is a
\* bare token different from name, or a keyed token, the call returns null
\* and no validation of the call ends the process, whatever tokens follow.
C4_MismatchReturnsNull ==
  [][(IsCall /\ NewCall.op = "command" /\ CommandMismatch(argv, NewCall))
       => (/\ ~(status'.state = "exited" /\ status'.reason \in ValidationErrors)
           /\ (status'.state = "running" => NewCall.result = Null))]_vars

\* no bare token of args equals name
NoCommandToken(args, name) ==
  \A i \in 1..Len(args) : ~(args[i].t = "bare" /\ args[i].s = name)

\* C5: for every argv that contains no bare token equal to name, the empty
\* argv and an argv made only of declared options included, command(name,
\* cfg) returns null and not a values object.
C5_NoCommandReturnsNull ==
  [][(IsCall /\ NewCall.op = "command" /\ NoCommandToken(argv, NewCall.name)
        /\ status'.state = "running")
       => NewCall.result = Null]_vars

\* ----------------------------------------------------- claims: help modes
\* C6: while the process is in show-help mode or in generate-static-help
\* mode, no option declaration ends the process with a validation error.
C6_NoValidationInHelpModes ==
  (showHelp \/ generatingStaticHelp)
    => ~(status.state = "exited" /\ status.reason \in ValidationErrors)

\* C7: in normal run mode capture() is a no-op: it returns at once, raises
\* no error and sets nothing up, and the program continues after it.
C7_CaptureIsNoOpInNormalMode ==
  [][(IsCall /\ NewCall.op = "capture" /\ ~showHelp /\ ~generatingStaticHelp)
       => (status' = status /\ timers' = timers)]_vars

\* C8: when the process was started with --help or --generate-help, the
\* program never resumes after `await CommandLineOptions.capture()`: the
\* process ends before the awaited promise resolves.
C8_NeverResumesInHelpModes ==
  (showHelp \/ generatingStaticHelp) => capture # "resumed"

\* --generate-help: capture() ran the collector, the promise was pending and
\* the exit timer of the collector ended the process with the generation code
C8_Witness ==
  /\ generatingStaticHelp /\ capture = "awaiting"
  /\ \E i \in 1..Len(timers) : timers[i].kind = "resolve"
  /\ status.state = "exited" /\ status.code = GenerationExitCode

\* the registry a process started with --help builds from the help file doc
Reparsed(doc) == ModuleInitialisation(Fresh(<<Key("help")>>, Some(doc)))

\* C9: for every registry whose contexts were each declared once,
\* generating the Markdown help document and parsing it into an otherwise
\* empty registry succeeds and gives a registry whose Markdown rendering is
\* the original document.
C9_RoundTrip ==
  Len(contexts) = Len(objs)
    => /\ Reparsed(GenerateHelpStatic(Cur, TRUE)).status.reason = "help printed"
       /\ GenerateHelpStatic(Reparsed(GenerateHelpStatic(Cur, TRUE)), TRUE)
            = GenerateHelpStatic(Cur, TRUE)

\* the pending timers of the help file
PendingWrites == {i \in 1..Len(timers) : timers[i].kind = "write"}

\* the step runs the callback of the timer of the help file
WriteFires ==
  /\ status.state = "running" /\ timers # <<>>
  /\ Len(timers') < Len(timers) /\ timers[NextTimer].kind = "write"

\* the registered contexts whose help file is local
RegisteredLocal ==
  {contexts[i].obj : i \in {j \in 1..Len(contexts) :
                              IsLocalFile(objs[contexts[j].obj].helpFile)}}

\* the context the write is for: the last declared of the registered
\* contexts with a local help file, else the first registered context
WriteTarget ==
  IF RegisteredLocal # {}
  THEN CHOOSE o \in RegisteredLocal : \A p \in RegisteredLocal : p <= o
  ELSE contexts[1].obj

\* C10: at most one write of the help file is pending at any moment, and
\* each firing of its timer performs exactly one write, for the most
\* recently declared context whose help file is local.
C10_OneWritePerFiring ==
  [][/\ Cardinality(PendingWrites') <= 1
     /\ WriteFires => /\ Len(writes') = Len(writes) + 1
                      /\ writes'[Len(writes')] = WriteTarget]_vars

\* ------------------------------------------- claims: deferred generation
\* the callback of the timer of the help file runs and finds no context
NoContextFires == WriteFires /\ contexts = <<>>

Collectors(opts) ==
  SelectSeq(opts, LAMBDA o : Flag(o.cfg, "collectNotPrefixedArgs"))

\* the bare tokens of args, in order, that the tokenizer does not take as
\* the value of the key before them
RECURSIVE Positional(_, _, _)
Positional(args, def, i) ==
  IF i > Len(args) THEN <<>>
  ELSE IF args[i].t = "bare" THEN <<args[i].s>> \o Positional(args, def, i + 1)
  ELSE IF i < Len(args) /\ args[i + 1].t = "bare" /\ ~IsBoolKey(def, args[i].s)
  THEN Positional(args, def, i + 2)
  ELSE Positional(args, def, i + 1)

\* every keyed token of args is an option or an alias of the call
KeysDefined(args, def) ==
  \A i \in 1..Len(args) : args[i].t = "key" => ArgDefined(def, args[i].s)

\* the first unknown token of the call is the bare token of its command
CommandMatched(args, call) ==
  LET i == FirstUnknown(args, DefOf(call.opts, EmptyDef), 1)
  IN i # 0 /\ args[i].t = "bare" /\ args[i].s = call.name

\* the step is an option(), options() or command() call that no lock
\* rejects and, for command(), whose command token matched
Resolves ==
  /\ IsCall /\ NewCall.op \in {"option", "options", "command"}
  /\ globalLockContext = 0
  /\ NewCall.op = "command"
       => ~MapHas(lockedCommands, NewCall.name) /\ CommandMatched(argv, NewCall)

\* the bare tokens of the process arguments left to the options of the
\* call: the token of the command is not one of them
BareOf(call) ==
  IF call.op = "command"
  THEN Tail(Positional(argv, DefOf(call.opts, EmptyDef), 1))
  ELSE Positional(argv, DefOf(call.opts, EmptyDef), 1)

IsSuffix(t, s) ==
  Len(t) <= Len(s) /\ SubSeq(s, Len(s) - Len(t) + 1, Len(s)) = t

\* C12: in a call with exactly one option flagged collectNotPrefixedArgs
\* (and, when the call is strict, no keyed token it does not declare): if
\* multiple is not set, two or more bare tokens end the process with the
\* "too many collected arguments" error and one bare token is the value of
\* the option; if multiple is set, all bare tokens are collected into the
\* array of the option, in the order of argv.
C12_CollectsBareTokens ==
  [][(/\ Resolves /\ Len(Collectors(NewCall.opts)) = 1
      /\ (NewCall.allow \/ KeysDefined(argv, DefOf(NewCall.opts, EmptyDef))))
       => IF ~Flag(Collectors(NewCall.opts)[1].cfg, "multiple")
          THEN /\ Len(BareOf(NewCall)) >= 2
                    => /\ status'.state = "exited" /\ status'.code = ErrorExitCode
                       /\ status'.reason = "too many collected arguments"
               /\ Len(BareOf(NewCall)) = 1
                    => /\ status'.reason # "too many collected arguments"
                       /\ status'.state = "running"
                            => Get(NewCall.result.values,
                                   Collectors(NewCall.opts)[1].name)
                                 = Str(BareOf(NewCall)[1])
          ELSE /\ status'.reason # "too many collected arguments"
               /\ status'.state = "running"
                    => /\ IsArray(Get(NewCall.result.values,
                                       Collectors(NewCall.opts)[1].name))
                       /\ IsSuffix(BareOf(NewCall),
                                   Get(NewCall.result.values,
                                       Collectors(NewCall.opts)[1].name).v)]_vars

\* argv is "a b": a call collected both into the array of a repeated
\* option, in order, and the next call, whose option takes one value,
\* ended the process
C12_Witness ==
  /\ Len(calls) = 2
  /\ Flag(calls[1].opts[1].cfg, "collectNotPrefixedArgs")
  /\ Flag(calls[1].opts[1].cfg, "multiple")
  /\ Get(calls[1].result.values, "files") = Arr(<<"a", "b">>)
  /\ calls[2].opts = <<Decl("files", Some(FilesCollector))>>
  /\ status.state = "exited" /\ status.reason = "too many collected arguments"

\* the index of the first token of args that a strict call rejects, 0 when
\* there is none: a keyed token the call does not declare, or a bare token
\* that is no value of a key when the call has no collecting option; the
\* first bare token of a command() call is the token of the command
RECURSIVE FirstInvalid(_, _, _, _, _)
FirstInvalid(args, def, collects, isCommand, i) ==
  IF i > Len(args) THEN 0
  ELSE IF args[i].t = "bare"
  THEN IF isCommand THEN FirstInvalid(args, def, collects, FALSE, i + 1)
       ELSE IF collects THEN FirstInvalid(args, def, collects, FALSE, i + 1)
       ELSE i
  ELSE IF ~ArgDefined(def, args[i].s) THEN i
  ELSE IF i < Len(args) /\ args[i + 1].t = "bare" /\ ~IsBoolKey(def, args[i].s)
  THEN FirstInvalid(args, def, collects, isCommand, i + 2)
  ELSE FirstInvalid(args, def, collects, isCommand, i + 1)

\* the token as the user typed it
TokenText(tok) == IF tok.t = "key" THEN FormatArgName(tok.s) ELSE tok.s

\* the collecting option of the call, if any, accepts the bare tokens
\* before token i
CollectorAccepts(call, i) ==
  \/ Collectors(call.opts) = <<>>
  \/ Flag(Collectors(call.opts)[1].cfg, "multiple")
  \/ Len(Positional(SubSeq(argv, 1, i - 1), DefOf(call.opts, EmptyDef), 1))
        <= (IF call.op = "command" THEN 2 ELSE 1)

\* C14: in a strict declaration (options() with allowOtherOptions = false,
\* or command() with allowOtherOptionsForCommand = false whose command token
\* matched), the first token of argv that is neither an option or alias of
\* the call nor routed to its collecting option ends the process with the
\* "invalid option" error that names this token; when there is no such
\* token, and in a declaration that allows other options, no call ends
\* with that error.
C14_StrictRejectsUnknown ==
  [][(/\ Resolves /\ NewCall.op \in {"options", "command"}
      /\ Len(Collectors(NewCall.opts)) <= 1)
       => LET i == FirstInvalid(argv, DefOf(NewCall.opts, EmptyDef),
                                Collectors(NewCall.opts) # <<>>,
                                NewCall.op = "command", 1)
          IN IF NewCall.allow \/ i = 0
             THEN status'.reason # "invalid option"
             ELSE CollectorAccepts(NewCall, i)
                    => /\ status'.state = "exited"
                       /\ status'.code = ErrorExitCode
                       /\ status'.reason = "invalid option"
                       /\ status'.arg = TokenText(argv[i])]_vars

\* argv is "advanced --time June a": the strict command("advanced", ...)
\* that declares "time" alone matched its token and rejected "a"
C14_Witness ==
  /\ calls # <<>>
  /\ calls[Len(calls)].op = "command" /\ ~calls[Len(calls)].allow
  /\ calls[Len(calls)].name = "advanced"
  /\ Len(calls[Len(calls)].opts) = 1
  /\ status.state = "exited" /\ status.reason = "invalid option"
  /\ status.arg = "a"

\* the values that the keyed tokens of args give the option name, in order:
\* the bare token after the key, or the empty string
RECURSIVE KeyedValues(_, _, _, _)
KeyedValues(args, def, name, i) ==
  IF i > Len(args) THEN <<>>
  ELSE IF args[i].t = "bare" THEN KeyedValues(args, def, name, i + 1)
  ELSE IF i < Len(args) /\ args[i + 1].t = "bare" /\ ~IsBoolKey(def, args[i].s)
  THEN (IF ArgDefined(def, args[i].s) /\ Canon(def, args[i].s) = name
        THEN <<args[i + 1].s>> ELSE <<>>)
         \o KeyedValues(args, def, name, i + 2)
  ELSE (IF ArgDefined(def, args[i].s) /\ Canon(def, args[i].s) = name
        THEN <<"">> ELSE <<>>)
         \o KeyedValues(args, def, name, i + 1)

\* the values the process arguments give option o of the call: the keyed
\* ones, then the bare tokens when o collects them
ValuesFor(call, o) ==
  KeyedValues(argv, DefOf(call.opts, EmptyDef), o.name, 1)
    \o (IF Flag(o.cfg, "collectNotPrefixedArgs") THEN BareOf(call) ELSE <<>>)

\* the required options of the call that take a value, have no default and
\* are given no value
Unresolved(call) ==
  {k \in 1..Len(call.opts) :
     /\ Flag(call.opts[k].cfg, "required")
     /\ \/ TypeIs(call.opts[k].cfg, "string") \/ TypeIs(call.opts[k].cfg, "number")
        \/ TypeIs(call.opts[k].cfg, "URL")
     /\ ~IsDef(Val(call.opts[k].cfg)["default"])
     /\ ValuesFor(call, call.opts[k]) = <<>>}

\* the tokenizer ends the call with no error, and no option of the call
\* has a check on its value
OnlyRequiredChecks(call) ==
  /\ \/ call.allow
     \/ FirstInvalid(argv, DefOf(call.opts, EmptyDef),
                     Collectors(call.opts) # <<>>, call.op = "command", 1) = 0
  /\ CollectorAccepts(call, Len(argv) + 1)
  /\ \A k \in 1..Len(call.opts) :
       /\ ~TypeIs(call.opts[k].cfg, "number")
       /\ FieldOf(call.opts[k].cfg, "allowEmptyString") # Some(FALSE)

\* C15: outside the help modes, a call with a required option for which no
\* value is resolved ends the process, with the "missing option" error when
\* no other check of the call fails first; a call whose required options
\* all have a value never ends with that error and succeeds when no other
\* check fails; and the value of a required option with multiple set and
\* one or more values is the array of these values.
C15_RequiredLaw ==
  [][(Resolves /\ Len(Collectors(NewCall.opts)) <= 1)
       => /\ Unresolved(NewCall) # {}
               => /\ status'.state = "exited" /\ status'.code = ErrorExitCode
                  /\ OnlyRequiredChecks(NewCall) => status'.reason = "missing option"
          /\ Unresolved(NewCall) = {}
               => /\ status'.reason # "missing option"
                  /\ OnlyRequiredChecks(NewCall) => status'.state = "running"
          /\ \A k \in 1..Len(NewCall.opts) :
               (/\ status'.state = "running"
                /\ Flag(NewCall.opts[k].cfg, "required")
                /\ Flag(NewCall.opts[k].cfg, "multiple")
                /\ TypeIs(NewCall.opts[k].cfg, "string"))
                 => /\ ValuesFor(NewCall, NewCall.opts[k]) # <<>>
                    /\ Get(NewCall.result.values, NewCall.opts[k].name)
                         = Arr(ValuesFor(NewCall, NewCall.opts[k]))]_vars

\* argv is "--files x a": the required repeated option "files" got the
\* array of "x" and "a", and the next call, whose required option "time"
\* is not given, ended the process
C15_Witness ==
  /\ Len(calls) = 2
  /\ Flag(calls[1].opts[1].cfg, "required")
  /\ Flag(calls[1].opts[1].cfg, "multiple")
  /\ Get(calls[1].result.values, "files") = Arr(<<"x", "a">>)
  /\ calls[2].op = "option" /\ calls[2].opts = <<Decl("time", Some(TimeRequired))>>
  /\ status.state = "exited" /\ status.code = ErrorExitCode
  /\ status.reason = "missing option"

\* the raw strings that reach the number check of option o of the call:
\* the values argv gives it, else its default; the last one alone when
\* multiple is not set
RawsOf(call, o) ==
  LET given == IF ValuesFor(call, o) # <<>> THEN ValuesFor(call, o)
               ELSE IF IsDef(Val(o.cfg)["default"]) THEN <<Val(o.cfg)["default"][1]>>
               ELSE <<>>
  IN IF Flag(o.cfg, "multiple") \/ given = <<>> THEN given
     ELSE <<given[Len(given)]>>

NumberOptions(call) ==
  {k \in 1..Len(call.opts) : TypeIs(call.opts[k].cfg, "number")}

\* C16: for an option of type number, no raw value gives undefined and no
\* error; a raw string that does not consist only of digits and dots ends
\* the process; a raw string that does is returned as the number it
\* denotes, the number whose decimal text is the raw string; with multiple
\* set the rule applies to each element of the array.
C16_NumberCoercion ==
  [][(Resolves /\ Len(Collectors(NewCall.opts)) <= 1)
       => /\ (\E k \in NumberOptions(NewCall) :
                \E j \in 1..Len(RawsOf(NewCall, NewCall.opts[k])) :
                  ~MatchesNumberPattern(RawsOf(NewCall, NewCall.opts[k])[j]))
               => (status'.state = "exited" /\ status'.code = ErrorExitCode)
          /\ (\A k \in NumberOptions(NewCall) :
                \A j \in 1..Len(RawsOf(NewCall, NewCall.opts[k])) :
                  MatchesNumberPattern(RawsOf(NewCall, NewCall.opts[k])[j]))
               => status'.reason # "not a number"
          /\ status'.state = "running"
               => \A k \in NumberOptions(NewCall) :
                    Get(NewCall.result.values, NewCall.opts[k].name)
                      = IF Flag(NewCall.opts[k].cfg, "multiple")
                        THEN Arr(RawsOf(NewCall, NewCall.opts[k]))
                        ELSE IF RawsOf(NewCall, NewCall.opts[k]) = <<>>
                        THEN Undefined
                        ELSE [ty |-> "number",
                              v |-> RawsOf(NewCall, NewCall.opts[k])]]_vars

\* the options of the registry of context o that collect the arguments
\* without a prefix, and the ones a call declares
RegisteredCollectors(o) ==
  {objs[o].optionConfigs[i].name :
     i \in {j \in 1..Len(objs[o].optionConfigs) :
              Flag(objs[o].optionConfigs[j].cfg, "collectNotPrefixedArgs")}}

DeclaredCollectors(call) ==
  {call.opts[i].name :
     i \in {j \in 1..Len(call.opts) :
              Flag(call.opts[j].cfg, "collectNotPrefixedArgs")}}

\* C13: at most one option of a registry sets collectNotPrefixedArgs: a
\* call after which the context would hold two such options, declared in
\* this call or in earlier option(), options() or command() calls, ends
\* the process with a configuration error.
C13_OneCollectorPerRegistry ==
  [][(/\ IsCall /\ NewCall.op \in {"option", "options", "command"}
      /\ Cardinality(RegisteredCollectors(NewCall.this)
                       \cup DeclaredCollectors(NewCall)) >= 2)
       => (status'.state = "exited" /\ status'.code = ErrorExitCode)]_vars

\* the bare token that follows the last key "name" of args that has one:
\* <<>> or <<token>>
ValueAfter(args, name) ==
  LET at == {i \in 1..(Len(args) - 1) : args[i] = Key(name) /\ args[i + 1].t = "bare"}
  IN IF at = {} THEN <<>>
     ELSE <<args[(CHOOSE i \in at : \A j \in at : j <= i) + 1].s>>

\* C17: an option declared without a type, or with no config at all, is a
\* string option: when argv holds `--name value`, the call that declares
\* it resolves the option to the string value.
C17_UntypedIsString ==
  [][(IsCall /\ NewCall.result.kind = "values")
       => \A k \in 1..Len(NewCall.opts) :
            (/\ FieldOf(NewCall.opts[k].cfg, "type") = None
             /\ ValueAfter(argv, NewCall.opts[k].name) # <<>>)
              => Get(NewCall.result.values, NewCall.opts[k].name)
                   = Str(ValueAfter(argv, NewCall.opts[k].name)[1])]_vars

\* C18: after options(cfg, allowOtherOptions = false) was called by any
\* context, no context can define a further option or command: every later
\* option(), options() or command() call, a command() call without
\* options included, ends the process with an error.
C18_ClosedToOptionsAndCommands ==
  [][(/\ ClosedToOtherOptions /\ IsCall
      /\ NewCall.op \in {"option", "options", "command"})
       => (status'.state = "exited" /\ status'.code = ErrorExitCode)]_vars

\* ----------------------------------------------- claims: help generation
\* C19: when the process is started with --generate-help, the static help
\* document is written at least once before the process ends, and the
\* process ends with the generation code 10.
C19_GenerateHelpWritesThenExits ==
  (generatingStaticHelp /\ status.state # "running")
    => (/\ status.state = "exited" /\ status.code = GenerationExitCode
        /\ writes # <<>>)

\* ----------------------------------------------------- claims: aliases
\* C20: aliases accumulate across declarations: after the same option name
\* was registered several times in a context, the registry entry's aliases
\* hold every alias given in any of those registrations.
C20_AliasesAccumulate ==
  \A i \in 1..Len(regLog) :
    Elems(AliasesOf(regLog[i].cfg))
      \subseteq Elems(AliasesOf(Get(objs[regLog[i].obj].optionConfigs,
                                    regLog[i].name)))

\* ------------------------------------------------- claims: duplicates
\* the name and the aliases of a declaration
ArgsOf(d) == {d.name} \cup Elems(AliasesOf(d.cfg))

\* the registered contexts other than this that hold arg as an option name
\* or as an alias, under a config that does not set overload
HoldersOf(arg, this) ==
  {o \in {contexts[i].obj : i \in 1..Len(contexts)} \ {this} :
     \E j \in 1..Len(objs[o].optionConfigs) :
       /\ ~Flag(objs[o].optionConfigs[j].cfg, "overload")
       /\ \/ objs[o].optionConfigs[j].name = arg
          \/ arg \in Elems(AliasesOf(objs[o].optionConfigs[j].cfg))}

\* the call registers its options: no lock stops it
Registers ==
  /\ IsCall /\ NewCall.op \in {"option", "options", "command"}
  /\ globalLockContext = 0
  /\ NewCall.op = "command" => ~MapHas(lockedCommands, NewCall.name)

\* the warnings of the step about declaration d of the call
NewWarnings(d) ==
  {w \in warned' \ warned :
     /\ w.new = objs[NewCall.this].contextName
     /\ \E a \in ArgsOf(d) : w.arg = FormatArgName(a)}

\* C21: whenever an option is registered whose name or one of whose
\* aliases is already registered, as a name or as an alias, by a different
\* context, and neither config sets overload, a warning that names both
\* contexts is emitted and the registration still completes; no warning is
\* emitted when the new config sets overload, when no such context exists
\* or when the process is in help-display mode.
C21_DuplicateWarning ==
  [][Registers
       => \A k \in 1..Len(NewCall.opts) :
            LET d == NewCall.opts[k] IN
            IF /\ ~showHelp /\ ~Flag(d.cfg, "overload")
               /\ \E a \in ArgsOf(d) : HoldersOf(a, NewCall.this) # {}
            THEN /\ \E w \in NewWarnings(d) \cup warned :
                      /\ w.new = objs[NewCall.this].contextName
                      /\ \E a \in ArgsOf(d) :
                           /\ w.arg = FormatArgName(a)
                           /\ \E o \in HoldersOf(a, NewCall.this) :
                                w.existing = objs[o].contextName
                 /\ \E i \in (Len(regLog) + 1)..Len(regLog') :
                      regLog'[i] = [obj |-> NewCall.this, name |-> d.name,
                                    cfg |-> d.cfg]
            ELSE NewWarnings(d) = {}]_vars

\* ---------------------------------------------------- claims: contexts
\* the help text has an entry line for the option name in the section of
\* the context contextName
Renders(text, contextName, name) ==
  \E i \in 1..Len(text) :
    /\ text[i].k = "item" /\ text[i].args[Len(text[i].args)].name = name
    /\ \E h \in 1..(i - 1) :
         /\ text[h] = H2(contextName)
         /\ \A j \in (h + 1)..(i - 1) : text[j].k # "h2"

\* C22: a context is created once per name: after a context was declared
\* again under a name that exists, every option registered earlier under
\* that name is still in the registry of the context of that name and,
\* when it is not a _dev option, in the rendered help.
C22_RedeclarationKeepsOptions ==
  \A i \in 1..Len(regLog) :
    LET contextName == objs[regLog[i].obj].contextName IN
    /\ MapHas(contexts, contextName)
    /\ Has(objs[MapObj(contexts, contextName)].optionConfigs, regLog[i].name)
    /\ ~Flag(Get(objs[MapObj(contexts, contextName)].optionConfigs,
                 regLog[i].name), "_dev")
         => Renders(GenerateHelpStatic(Cur, FALSE), contextName, regLog[i].name)

\* ------------------------------------------------ claims: registry keys
\* the sub-command a call registers its options under: "" is the top level
ScopeOf(call) == IF call.op = "command" THEN call.name ELSE ""

\* an earlier call of object this registered option n under a scope other
\* than scope, and the process went on
RegisteredElsewhere(this, n, scope) ==
  \E i \in 1..Len(calls) :
    /\ calls[i].this = this /\ calls[i].op \in {"option", "options", "command"}
    /\ ScopeOf(calls[i]) # scope
    /\ \E k \in 1..Len(calls[i].opts) : calls[i].opts[k].name = n

\* C23: registry entries are keyed by (sub-command name, option name):
\* registering option n under command c never changes the config stored
\* for n under another command or at top level.
C23_ScopedRegistryKeys ==
  [][(IsCall /\ NewCall.op = "command")
       => \A k \in 1..Len(NewCall.opts) :
            RegisteredElsewhere(NewCall.this, NewCall.opts[k].name, ScopeOf(NewCall))
              => Get(objs'[NewCall.this].optionConfigs, NewCall.opts[k].name)
                   = Get(objs[NewCall.this].optionConfigs, NewCall.opts[k].name)]_vars

\* ------------------------------------------------ claims: help rendering
\* the context names in declaration order, each at its first declaration
RECURSIVE DeclaredNames(_, _)
DeclaredNames(os, seen) ==
  IF os = <<>> THEN <<>>
  ELSE IF Head(os).contextName \in seen THEN DeclaredNames(Tail(os), seen)
  ELSE <<Head(os).contextName>>
         \o DeclaredNames(Tail(os), seen \cup {Head(os).contextName})

\* the titles of the sections of a help text, in order
SectionNames(text) ==
  [i \in 1..Len(SelectSeq(text, LAMBDA l : l.k = "h2")) |->
     SelectSeq(text, LAMBDA l : l.k = "h2")[i].s]

\* the lines of the section of context contextName
SectionOf(text, contextName) ==
  LET h == CHOOSE i \in 1..Len(text) : text[i] = H2(contextName)
      n == FirstH2(text, h + 1)
  IN SubSeq(text, h + 1, n - 1)

\* line i of a section is an entry under the heading "Required"
UnderRequired(lines, i) ==
  \E r \in 1..(i - 1) :
    /\ lines[r] = H3("Required")
    /\ \A j \in (r + 1)..(i - 1) : lines[j].k # "h3"

\* the section of one context: Required before Optional, every option
\* that is not _dev once, under Required iff it is required, no _dev option
SectionIsRight(lines, entries) ==
  /\ \A r, p \in 1..Len(lines) :
       (lines[r] = H3("Required") /\ lines[p] = H3("Optional")) => r < p
  /\ \A e \in 1..Len(entries) :
       LET at == {i \in 1..Len(lines) :
                   /\ lines[i].k = "item"
                   /\ lines[i].args[Len(lines[i].args)].name = entries[e].name}
       IN IF Flag(entries[e].cfg, "_dev") THEN at = {}
          ELSE /\ Cardinality(at) = 1
               /\ \A i \in at : UnderRequired(lines, i)
                                   <=> Flag(entries[e].cfg, "required")

\* the help text of static generateHelp is laid out as documented
HelpIsRight(text, keepOrder) ==
  /\ SectionNames(text) # <<>>
  /\ SectionNames(text)[Len(SectionNames(text))] = DefaultContextName
  /\ ~keepOrder =>
       SectionNames(text)
         = Reverse(SelectSeq(DeclaredNames(objs, {}),
                             LAMBDA n : n # DefaultContextName))
             \o <<DefaultContextName>>
  /\ \A i \in 1..Len(contexts) :
       /\ \E h \in 1..Len(text) : text[h] = H2(contexts[i].name)
       /\ SectionIsRight(SectionOf(text, contexts[i].name),
                         objs[contexts[i].obj].optionConfigs)

\* C24: in the help text of the static generateHelp the section of the
\* default context "General Options" is the last one, whatever the
\* declaration order and keepOrder; with keepOrder = false the other
\* contexts come in reverse declaration order; within a context Required
\* precedes Optional, every option that is not _dev appears exactly once,
\* under Required iff it is required, and no _dev option appears.
C24_HelpLayout ==
  /\ HelpIsRight(GenerateHelpStatic(Cur, TRUE), TRUE)
  /\ HelpIsRight(GenerateHelpStatic(Cur, FALSE), FALSE)

\* claims: help-file parsing
\* the try block of parseHelpMarkdownFile for the document doc, run in the
\* state S
ParseOf(S, doc) == ParseDocument(S, doc, FirstH2(doc, 1))

\* the loop of main.ts 523 ended at a part of the section, for every
\* section of doc the parsing came to
DescriptionLoopEnds(S, doc) == ParseOf(S, doc).status.reason # "RangeError"

\* C25: parseHelpMarkdownFile ends for every document: in each "## "
\* section the loop that gathers the description ends at one of the
\* section's parts, also when no part starts with "#" or " *"; checked
\* for the help file of the working directory and for the document the
\* registry renders to.
C25_ParseTerminates ==
  Running(Cur) =>
    /\ IsDef(files["cwd"]) => DescriptionLoopEnds(Cur, Val(files["cwd"]))
    /\ DescriptionLoopEnds(Cur, GenerateHelpStatic(Cur, TRUE))

\* claims: strict declarations
\* the formatted names and aliases of the options registered in the
\* registry of some object
RegisteredArgs ==
  {FormatArgName(a) :
     a \in UNION {UNION {ArgsOf(objs[o].optionConfigs[j]) :
                            j \in 1..Len(objs[o].optionConfigs)} :
                    o \in 1..Len(objs)}}

\* C26: a strict options() or command() call never ends the process with
\* the invalid-option error for a token that is the name or an alias of an
\* option registered before the call in the registry of some context.
C26_StrictKnowsRegistered ==
  [][(/\ IsCall /\ NewCall.op \in {"options", "command"} /\ ~NewCall.allow
      /\ status'.reason = "invalid option")
       => status'.arg \notin RegisteredArgs]_vars

\* claims: coalesced writes
\* a timer of the given kind is pending
Pending(kind) == \E i \in 1..Len(timers) : timers[i].kind = kind

\* the document of the last write, empty before the first one
LastWritten ==
  IF writes = <<>> THEN <<>>
  ELSE Val(files[objs[writes[Len(writes)]].helpFile])

\* the registrations of visible options and the created contexts that the
\* document of the last write does not hold
Unwritten ==
  {i \in 1..Len(regLog) :
     /\ ~Flag(regLog[i].cfg, "_dev")
     /\ ~Renders(LastWritten, objs[regLog[i].obj].contextName, regLog[i].name)}

UnwrittenContexts ==
  {o \in 1..Len(objs) :
     \A i \in 1..Len(LastWritten) : LastWritten[i] # H2(objs[o].contextName)}

\* C27: in generate-help mode, once the load listener has requested the
\* generation, a write of the help document is pending whenever a context
\* creation or a registration of a visible option is not in the document
\* written last: the write that follows renders the registry as it is when
\* the timer fires, so a request dropped while a write was pending loses
\* nothing.
C27_NoLostRegistration ==
  (generatingStaticHelp /\ Running(Cur) /\ Pending("exit"))
    => (Pending("write") \/ (Unwritten = {} /\ UnwrittenContexts = {}))

\* claims: caller's objects
\* the registrations of the option name on the object o that passed a
\* config
ConfigsPassed(o, name) ==
  {i \in 1..Len(regLog) :
     regLog[i].obj = o /\ regLog[i].name = name /\ IsDef(regLog[i].cfg)}

\* main.ts 348-349: the registry entry is the object the caller passed in
\* the first registration that found no entry; this is that object as it
\* was when it was passed
FirstPassed(o, name) ==
  regLog[CHOOSE i \in ConfigsPassed(o, name) :
           \A j \in ConfigsPassed(o, name) : i <= j].cfg

\* C28: registering an option never modifies a config object a caller
\* passed: the object that became the registry entry still has the fields
\* and values it was passed with, whatever was registered under the same
\* name later.
C28_CallerConfigUntouched ==
  \A i \in 1..Len(regLog) :
    IsDef(regLog[i].cfg)
      => Get(objs[regLog[i].obj].optionConfigs, regLog[i].name)
           = FirstPassed(regLog[i].obj, regLog[i].name)

\* claims: locks
\* C29: the locks are monotonic: once the global lock is set it stays set
\* with the same context as its locker, and a locked command name stays
\* locked with the same context as its locker, whatever is called next.
C29_LocksAreMonotonic ==
  [][/\ globalLockContext # 0 => globalLockContext' = globalLockContext
     /\ \A i \in 1..Len(lockedCommands) :
          /\ MapHas(lockedCommands', lockedCommands[i].name)
          /\ MapObj(lockedCommands', lockedCommands[i].name)
               = lockedCommands[i].obj]_vars

\* claims: numerals
\* a decimal numeral: digits and at most one dot, at least one digit
WellFormedNumeral(s) ==
  /\ \A i \in 1..Len(Chars(s)) : Chars(s)[i] \in Digits \cup {"."}
  /\ \E i \in 1..Len(Chars(s)) : Chars(s)[i] \in Digits
  /\ Cardinality({i \in 1..Len(Chars(s)) : Chars(s)[i] = "."}) <= 1

\* the numbers a call returned for the option o, as their decimal texts
ReturnedFor(call, o) == Get(call.result.values, o.name).v

\* C30: every raw string the numeric check of a number option accepts is a
\* decimal numeral with at least one digit and at most one dot, and the
\* number returned for it is the value of the whole string: never NaN and
\* never the value of a prefix of the string.
C30_AcceptedIsNumeral ==
  [][(Resolves /\ Len(Collectors(NewCall.opts)) <= 1 /\ status'.state = "running")
       => \A k \in NumberOptions(NewCall) :
            \A j \in 1..Len(RawsOf(NewCall, NewCall.opts[k])) :
              /\ WellFormedNumeral(RawsOf(NewCall, NewCall.opts[k])[j])
              /\ ReturnedFor(NewCall, NewCall.opts[k])[j] # "NaN"
              /\ ReturnedFor(NewCall, NewCall.opts[k])[j]
                   = RawsOf(NewCall, NewCall.opts[k])[j]]_vars

====
